---- MODULE Spec2Model ----
(***************************************************************************)
(* odooRest: the decorators odoo_auth and odoo_method, in their Django     *)
(* (remote JSON-RPC) and in-process Odoo variants, together with the       *)
(* helpers authenticate and call_odoo of odoo_utils.py.                    *)
(*                                                                         *)
(* A behaviour starts from a decorated view (the decorator's arguments and *)
(* the decorated function are fixed at construction) and then serves       *)
(* requests one at a time; every action is one whole invocation of a       *)
(* wrapper.  The variables keep the last invocation: the request, what the *)
(* wrapper did (remote calls, ORM operations, hook calls) and its answer.  *)
(***************************************************************************)
EXTENDS Integers, Sequences, FiniteSets, TLC

VARIABLES
    mode,       \* "django" or "odoo": DJANGO_ENVIRONMENT at import
    view,       \* the decorated view: method, func's behaviour, hooks
    store,      \* the ERP's records of the model (in-process Odoo mode)
    request,    \* the request of the last invocation
    response,   \* what the last invocation returned (or raised)
    calls,      \* the calls of authenticate and call_odoo of the last invocation
    ops,        \* the ORM operations executed by the last invocation
    trail,      \* calls of the decorated function, the hooks and json.dumps
    error       \* the exception raised inside the last invocation's try block

vars == <<mode, view, store, request, response, calls, ops, trail, error>>

----------------------------------------------------------------------------
(* Python values.  Every value carries its type in k, so that values of    *)
(* different types can be told apart (isinstance) and compared.            *)

PyNone == [k |-> "NoneType"]
PyInt(n) == [k |-> "int", v |-> n]
PyBool(b) == [k |-> "bool", v |-> b]
PyStr(s) == [k |-> "str", v |-> s]
PyBytes(s) == [k |-> "bytes", v |-> s]
PyDateTime(s) == [k |-> "datetime", v |-> s]
PyList(s) == [k |-> "list", v |-> s]
PyDict(d) == [k |-> "dict", v |-> d]
PyFunction(name) == [k |-> "function", v |-> name]

EmptyDict == [key \in {} |-> PyNone]

\* dict.get(key, default)
Get(d, key, default) == IF key \in DOMAIN d THEN d[key] ELSE default

\* dict.pop(key, default): the dict that is left
Without(d, keys) == [key \in DOMAIN d \ keys |-> d[key]]

\* Python's truth value of an object
Truthy(x) ==
    CASE x.k = "NoneType" -> FALSE
      [] x.k = "int" -> x.v # 0
      [] x.k = "bool" -> x.v
      [] x.k \in {"str", "bytes"} -> x.v # ""
      [] x.k = "list" -> Len(x.v) > 0
      [] x.k = "dict" -> DOMAIN x.v # {}
      [] OTHER -> TRUE

callable(x) == x.k = "function"

ErrorDict(msg) == PyDict([error |-> PyStr(msg)])

----------------------------------------------------------------------------
(* odoo_utils.py: the two HTTP helpers.  `net` is what the network and the *)
(* server do with the request: one of the requests.RequestException        *)
(* failures, or a reply with a JSON body (and cookies).                    *)

RequestException == {"ConnectionError", "Timeout", "HTTPError"}

\* f"Network error: {str(e)}"
NetworkError(e) == PyDict([error |-> [k |-> "str", v |-> "Network error: ", e |-> e]])

\* authenticate without the check that the reply carries a session_id cookie
authenticate_any_cookies(odoo_url, odoo_db, username, password, net) ==
    [sent |-> [fn |-> "authenticate",
               url |-> <<odoo_url, "/web/session/authenticate">>,
               json |-> [jsonrpc |-> "2.0", method |-> "call",
                         params |-> [db |-> odoo_db, login |-> username,
                                     password |-> password]],
               net |-> net],
     raised |-> "none",
     ret |-> IF net.t \in RequestException THEN NetworkError(net.t)
             ELSE IF Truthy(Get(net.json, "result", PyNone))
             THEN PyDict([uid |-> Get(net.json.result.v, "uid", PyNone),
                          session_id |-> Get(net.cookies, "session_id", PyNone),
                          cookies |-> PyDict(net.cookies)])
             ELSE ErrorDict("Authentication failed.")]

\* authenticate(odoo_url, odoo_db, username, password)
authenticate(odoo_url, odoo_db, username, password, net) ==
    LET url == <<odoo_url, "/web/session/authenticate">>
        auth_data == [jsonrpc |-> "2.0", method |-> "call",
                      params |-> [db |-> odoo_db, login |-> username,
                                  password |-> password]]
        sent == [fn |-> "authenticate", url |-> url, json |-> auth_data,
                 net |-> net]
    IN  IF net.t \in RequestException
        THEN [sent |-> sent, raised |-> "none", ret |-> NetworkError(net.t)]
        ELSE IF Truthy(Get(net.json, "result", PyNone))
        THEN LET session_id == Get(net.cookies, "session_id", PyNone)
             IN  IF ~Truthy(session_id)
                 THEN [sent |-> sent, raised |-> "none",
                       ret |-> ErrorDict("No session ID found in the response cookies.")]
                 ELSE [sent |-> sent, raised |-> "none",
                       ret |-> PyDict([uid |-> Get(net.json.result.v, "uid", PyNone),
                                       session_id |-> session_id,
                                       cookies |-> PyDict(net.cookies)])]
        ELSE [sent |-> sent, raised |-> "none",
              ret |-> ErrorDict("Authentication failed.")]

\* The JSON-RPC payload call_odoo builds from its params argument
call_odoo_payload(model, method, params) ==
    [jsonrpc |-> "2.0", method |-> "call",
     params |-> [model |-> model, method |-> method,
                 args |-> <<Get(params, "domain", PyList(<<>>))>>,
                 kwargs |-> [fields |-> Get(params, "fields", PyList(<<>>)),
                             limit |-> Get(params, "limit", PyNone)]]]

\* call_odoo without its except clause: a network failure leaves the function
call_odoo_unguarded(session_id, base_url, model, method, params, net) ==
    [sent |-> [fn |-> "call_odoo",
               url |-> <<base_url, "/web/dataset/call_kw">>,
               cookie |-> [session_id |-> session_id],
               json |-> call_odoo_payload(model, method, params),
               given |-> params, net |-> net],
     raised |-> IF net.t \in RequestException THEN net.t ELSE "none",
     ret |-> IF net.t \in RequestException THEN PyNone
             ELSE IF "result" \in DOMAIN net.json THEN net.json.result
             ELSE ErrorDict("Failed to fetch data")]

\* call_odoo(session_id, base_url, model, method, params)
call_odoo(session_id, base_url, model, method, params, net) ==
    LET sent == [fn |-> "call_odoo",
                 url |-> <<base_url, "/web/dataset/call_kw">>,
                 cookie |-> [session_id |-> session_id],
                 json |-> call_odoo_payload(model, method, params),
                 given |-> params, net |-> net]
    IN  IF net.t \in RequestException
        THEN [sent |-> sent, raised |-> "none", ret |-> NetworkError(net.t)]
        ELSE IF "result" \in DOMAIN net.json
        THEN [sent |-> sent, raised |-> "none", ret |-> net.json.result]
        ELSE [sent |-> sent, raised |-> "none",
              ret |-> ErrorDict("Failed to fetch data")]

----------------------------------------------------------------------------
(* decorators.py: what both variants share.                                *)

BusinessErrors == {"UserError", "ValidationError", "AccessError"}

\* isinstance(e, (UserError, ValidationError, AccessError)): odoo.exceptions
\* derives MissingError from UserError
IsBusinessError(exc) == exc \in BusinessErrors \/ exc = "MissingError"

\* Response(data, status=status) of rest_framework
Response(data, status) ==
    [status |-> status, data |-> data, cookies |-> EmptyDict, raised |-> "none"]

\* An exception that leaves the wrapper: there is no response
Raised(exc) ==
    [status |-> 0, data |-> PyNone, cookies |-> EmptyDict, raised |-> exc]

\* UniversalConnector.get_response, Django branch
get_response(data, status) == Response(data, status)

\* get_session with a default session for a request without the cookie
get_session_default(req) ==
    IF "COOKIES" \in DOMAIN req
    THEN Get(req.COOKIES, "session_id", PyStr("anonymous"))
    ELSE IF "_request" \in DOMAIN req
    THEN Get(req["_request"].COOKIES, "session_id", PyStr("anonymous"))
    ELSE PyNone

\* UniversalConnector.get_session, Django branch
get_session(req) ==
    IF "COOKIES" \in DOMAIN req
    THEN Get(req.COOKIES, "session_id", PyNone)
    ELSE IF "_request" \in DOMAIN req
    THEN Get(req["_request"].COOKIES, "session_id", PyNone)
    ELSE PyNone

\* What a hook of the view returns: the hooks are the view's own code, so the
\* value is only known to be made from the arguments
HookValue(hook, result) == [k |-> hook, v |-> result]

\* The order of the keys of the dict the decorated function returns
KeyOrder == <<"base_url", "domain", "fields", "limit", "offset", "ids", "values",
              "name", "image_1920", "after_execution", "custom_response">>

\* list(d.keys())
keys(d) ==
    LET present == SelectSeq(KeyOrder, LAMBDA key : key \in DOMAIN d)
    IN  PyList([i \in 1..Len(present) |-> PyStr(present[i])])

\* The except clauses that end the Django wrapper of odoo_method, lines 219-227:
\* exc is what the body raised ("none": it returned resp)
django_except(exc, resp) ==
    IF exc = "none" THEN resp
    ELSE IF IsBusinessError(exc)
    THEN get_response(PyDict([error |-> PyStr(exc)]), 400)
    ELSE get_response(PyDict([error |-> PyStr(exc)]), 500)

----------------------------------------------------------------------------
(* odoo_method, Django variant.  Each operator below is a stretch of the   *)
(* wrapper; it is given what the stretches before it computed.             *)

\* The params the wrapper shapes for the methods other than create; for a method
\* outside the if/elif chain the local variable params is never bound
shape_params(method, additional_params) ==
    CASE method = "search_read" ->
           [args |-> <<Get(additional_params, "domain", PyList(<<>>))>>,
            kwargs |-> [fields |-> Get(additional_params, "fields", PyList(<<>>)),
                        limit |-> Get(additional_params, "limit", PyNone)]]
      [] method = "read" ->
           [args |-> <<Get(additional_params, "ids", PyList(<<>>))>>,
            kwargs |-> [fields |-> Get(additional_params, "fields", PyList(<<>>))]]
      [] method = "write" ->
           [args |-> <<Get(additional_params, "ids", PyList(<<>>)),
                       Get(additional_params, "values", PyDict(EmptyDict))>>,
            kwargs |-> EmptyDict]
      [] method = "unlink" ->
           [args |-> <<Get(additional_params, "ids", PyList(<<>>))>>,
            kwargs |-> EmptyDict]
      [] OTHER -> [unbound |-> TRUE]

IsBound(params) == "unbound" \notin DOMAIN params

\* The try block ends by raising exc
Throw(exc, cs, tr) == [exc |-> exc, calls |-> cs, trail |-> tr, resp |-> Raised(exc)]

\* The try block ends by returning resp
Return(resp, cs, tr) == [exc |-> "none", calls |-> cs, trail |-> tr, resp |-> resp]

\* Lines 215-218: custom_response, or the default response
django_respond(v, custom_response, result, params, cs, tr) ==
    IF callable(custom_response)
    THEN IF ~IsBound(params)
         THEN Throw("UnboundLocalError", cs, tr)
         ELSE IF v.custom # "returns"
         THEN Throw(v.custom, cs, Append(tr, [fn |-> "custom_response", result |-> result,
                                  params |-> params]))
         ELSE Return(Response(HookValue("custom_response", result), 200), cs,
                     Append(tr, [fn |-> "custom_response", result |-> result,
                                  params |-> params]))
    ELSE Return(get_response(result, 200), cs, tr)

\* Lines 212-218: the hooks and the final response.  v is the view (whose hooks
\* return or raise), cs the remote calls made, tr the trail so far
django_finish(v, after_execution, custom_response, result, params, cs, tr) ==
    IF callable(after_execution)
    THEN IF ~IsBound(params)
         THEN Throw("UnboundLocalError", cs, tr)
         ELSE IF v.after # "returns"
         THEN Throw(v.after, cs, Append(tr, [fn |-> "after_execution", result |-> result,
                                  params |-> params]))
         ELSE django_respond(v, custom_response, HookValue("after_execution", result),
                             params, cs,
                             Append(tr, [fn |-> "after_execution", result |-> result,
                                  params |-> params]))
    ELSE django_respond(v, custom_response, result, params, cs, tr)

\* Lines 175-177, after the read that follows a create: c1 is the create call,
\* c2 the read
django_read_back(v, after_execution, custom_response, c1, c2, tr) ==
    IF c2.raised # "none"
    THEN Throw(c2.raised, <<c1, c2>>, tr)
    ELSE django_finish(v, after_execution, custom_response,
                       IF Truthy(c2.ret) /\ c2.ret.k = "list" THEN c2.ret.v[1] ELSE c1.ret,
                       [unbound |-> TRUE], <<c1, c2>>, tr)

\* Lines 163-174, after the create call c1
django_created(model, v, odoo_session, base_url, after_execution, custom_response,
               additional_params, c1, nets, tr) ==
    IF c1.raised # "none"
    THEN Throw(c1.raised, <<c1>>, tr)
    ELSE IF Truthy(c1.ret)
    THEN django_read_back(v, after_execution, custom_response, c1,
             call_odoo(odoo_session, base_url, model, "read",
                       [args |-> <<PyList(<<c1.ret>>)>>,
                        kwargs |-> [fields |-> keys(additional_params)]],
                       nets[2]),
             tr)
    ELSE django_finish(v, after_execution, custom_response, c1.ret,
                       [unbound |-> TRUE], <<c1>>, tr)

\* Lines 208-218, after the remote call c1 of the other methods
django_called(v, after_execution, custom_response, params, c1, tr) ==
    IF c1.raised # "none"
    THEN Throw(c1.raised, <<c1>>, tr)
    ELSE django_finish(v, after_execution, custom_response, c1.ret, params, <<c1>>, tr)

\* Lines 208-210, the remote call of the other methods, with the params shaped
django_call(model, method, v, odoo_session, base_url, after_execution,
            custom_response, params, nets, tr) ==
    IF ~IsBound(params)
    THEN Throw("UnboundLocalError", <<>>, tr)
    ELSE django_called(v, after_execution, custom_response, params,
             call_odoo(odoo_session, base_url, model, method, params, nets[1]), tr)

\* Lines 147-210
django_dispatch(model, method, v, odoo_session, base_url, after_execution,
                custom_response, additional_params, nets, tr) ==
    IF method = "create"
    THEN django_created(model, v, odoo_session, base_url, after_execution,
             custom_response, additional_params,
             call_odoo(odoo_session, base_url, model, method,
                       [args |-> <<PyDict(additional_params)>>, kwargs |-> EmptyDict],
                       nets[1]),
             nets, tr)
    ELSE django_call(model, method, v, odoo_session, base_url, after_execution,
             custom_response, shape_params(method, additional_params), nets, tr)

\* Lines 131-145, with the session read from the request
django_session(model, method, v, odoo_session, nets) ==
    IF ~Truthy(odoo_session)
    THEN Return(get_response(ErrorDict("Odoo session not provided."), 401), <<>>, <<>>)
    ELSE IF v.raises # "none"
    THEN Throw(v.raises, <<>>, <<[fn |-> "func"]>>)
    ELSE django_dispatch(model, method, v, odoo_session,
             Get(v.returns, "base_url", PyNone),
             Get(v.returns, "after_execution", PyNone),
             Get(v.returns, "custom_response", PyNone),
             Without(v.returns, {"base_url", "custom_response", "after_execution"}),
             nets, <<[fn |-> "func"]>>)

\* The try block of the wrapper, lines 130-218.  nets[i] is what the network does
\* with the i-th remote call
django_method_body(model, method, v, req, nets) ==
    django_session(model, method, v, get_session(req), nets)

\* The wrapper's except clauses applied to what its try block did
django_caught(body) == [body EXCEPT !.resp = django_except(body.exc, body.resp)]

\* odoo_method(model, method)(func), Django variant: the wrapper
django_method_wrapper(model, method, v, req, nets) ==
    django_caught(django_method_body(model, method, v, req, nets))

----------------------------------------------------------------------------
(* odoo_auth, Django variant.                                              *)

\* Lines 94-104: the response of a successful login, with the server's cookies
django_auth_success(auth_result) ==
    [status |-> 200,
     data |-> PyDict([message |-> PyStr("Authentication successful"),
                      uid |-> auth_result["uid"]]),
     cookies |-> [c \in {"session_id"} \cup DOMAIN auth_result["cookies"].v |->
                     IF c = "session_id" THEN auth_result["session_id"]
                     ELSE auth_result["cookies"].v[c]],
     raised |-> "none"]

\* Lines 87-104, after the call a of authenticate
django_authenticated(a, tr) ==
    IF a.raised # "none"
    THEN Throw(a.raised, <<a>>, tr)
    ELSE IF "error" \in DOMAIN a.ret.v
    THEN Return(get_response(PyDict([error |-> a.ret.v["error"]]), 401), <<a>>, tr)
    ELSE Return(django_auth_success(a.ret.v), <<a>>, tr)

\* Lines 76-85, with the credentials the decorated function returned
django_credentials(odoo_url, odoo_db, username, password, net, tr) ==
    IF ~(Truthy(username) /\ Truthy(password))
    THEN Return(get_response(ErrorDict("Username and password are required."), 401),
                <<>>, tr)
    ELSE django_authenticated(authenticate(odoo_url, odoo_db, username, password, net), tr)

\* The try block of the wrapper, lines 75-104
django_auth_body(odoo_url, odoo_db, v, net) ==
    IF v.raises # "none"
    THEN Throw(v.raises, <<>>, <<[fn |-> "func"]>>)
    ELSE django_credentials(odoo_url, odoo_db,
             Get(v.returns, "username", PyNone), Get(v.returns, "password", PyNone),
             net, <<[fn |-> "func"]>>)

\* Lines 105-109: every exception ends in a 500
django_auth_caught(body) ==
    [body EXCEPT !.resp = IF body.exc = "none" THEN body.resp
                          ELSE get_response(PyDict([error |-> PyStr(body.exc)]), 500)]

\* odoo_auth(odoo_url, odoo_db)(func), Django variant: the wrapper
django_auth_wrapper(odoo_url, odoo_db, v, net) ==
    django_auth_caught(django_auth_body(odoo_url, odoo_db, v, net))

----------------------------------------------------------------------------
(* The ORM of the in-process variant: request.env[model].sudo().  The      *)
(* store maps the ids of the existing records to their field values and    *)
(* remembers the next id to hand out.                                      *)

ModelFields == {"id", "name", "image_1920", "write_date"}

\* 'image' in field
IsImageField(field) == field \in {"image_1920"}

\* A record as the ORM returns it for the fields asked (none asked: all)
record_dict(st, id, fields) ==
    LET want == IF fields = {} THEN ModelFields ELSE (fields \cap ModelFields) \cup {"id"}
    IN  PyDict([f \in want |-> IF f = "id" THEN PyInt(id) ELSE st.recs[id][f]])

\* The names in a list of field names
names(fields) == IF fields.k = "list" THEN {fields.v[i].v : i \in DOMAIN fields.v} ELSE {}

\* Whether a record satisfies a domain of (field, '=', value) leaves
matches(rec, domain) ==
    \A i \in DOMAIN domain.v :
        LET leaf == domain.v[i].v IN rec[leaf[1].v] = leaf[3]

\* A set of ids in ascending order
RECURSIVE ascending(_)
ascending(S) ==
    IF S = {} THEN <<>>
    ELSE LET least == CHOOSE x \in S : \A y \in S : x <= y
         IN  <<least>> \o ascending(S \ {least})

\* env.search_count(domain)
search_count(st, domain) ==
    Cardinality({id \in DOMAIN st.recs : matches(st.recs[id], domain)})

\* env.search_read(domain, fields, offset, limit, order): a falsy limit is no limit
search_read(st, domain, fields, offset, limit) ==
    LET found == ascending({id \in DOMAIN st.recs : matches(st.recs[id], domain)})
        from == IF offset.k = "int" THEN offset.v ELSE 0
        rest == SubSeq(found, from + 1, Len(found))
        page == IF Truthy(limit) /\ limit.v < Len(rest)
                THEN SubSeq(rest, 1, limit.v) ELSE rest
    IN  PyList([i \in 1..Len(page) |-> record_dict(st, page[i], names(fields))])

\* env.browse(ids): the ids of the recordset
browse(ids) == IF ids.k = "list" THEN {ids.v[i].v : i \in DOMAIN ids.v} ELSE {}

\* exists that takes every id for stored
exists_unchecked(st, ids) == ids

\* records.exists(): the ids among them that are stored
exists(st, ids) == ids \cap DOMAIN st.recs

\* env.create(vals): the store with the new record, whose id is next_id
orm_create(st, vals) ==
    LET rec == [f \in ModelFields \ {"id"} |->
                   IF f = "write_date" THEN PyDateTime("now")
                   ELSE Get(vals, f, PyBool(FALSE))]
    IN  [recs |-> [id \in DOMAIN st.recs \cup {st.next_id} |->
                      IF id = st.next_id THEN rec ELSE st.recs[id]],
         next_id |-> st.next_id + 1]

\* records.write(vals)
orm_write(st, ids, vals) ==
    [st EXCEPT !.recs =
        [id \in DOMAIN st.recs |->
            IF id \in ids
            THEN [f \in ModelFields \ {"id"} |->
                     IF f = "write_date" THEN PyDateTime("now")
                     ELSE Get(vals, f, st.recs[id][f])]
            ELSE st.recs[id]]]

\* records.unlink()
orm_unlink(st, ids) ==
    [st EXCEPT !.recs = [id \in DOMAIN st.recs \ ids |-> st.recs[id]]]

----------------------------------------------------------------------------
(* decorators.py: the helpers that make a result JSON-serializable.        *)

\* base64.b64encode(value).decode('utf-8')
b64encode(value) == [k |-> "str", v |-> value.v, encoding |-> "base64"]

\* value.isoformat()
isoformat(value) == [k |-> "str", v |-> value.v, format |-> "iso-8601"]

_convert_field_value(value) ==
    IF value.k = "datetime" THEN isoformat(value)
    ELSE IF value.k = "bytes" THEN b64encode(value)
    ELSE value

\* _prepare_record_data(record, fields_or_params); ids is the recordset.  The
\* attribute access record.id needs a single record
_prepare_record_data(st, ids, fields_or_params) ==
    LET asked == IF fields_or_params.k = "dict" THEN DOMAIN fields_or_params.v
                 ELSE IF Truthy(fields_or_params) THEN names(fields_or_params)
                 ELSE ModelFields
        fields == asked \cap ModelFields
    IN  IF Cardinality(ids) # 1
        THEN [exc |-> "ValueError"]
        ELSE LET id == CHOOSE x \in ids : TRUE
             IN  [exc |-> "none",
                  value |-> PyDict([f \in fields \cup {"id"} |->
                      IF f = "id" THEN PyInt(id)
                      ELSE _convert_field_value(st.recs[id][f])])]

\* handle_images_in_result(result, fields)
handle_images_in_result(result, fields) ==
    LET listed == IF result.k = "dict" THEN PyList(<<result>>) ELSE result
        image_fields == {f \in names(fields) : IsImageField(f)}
        encode(rec, f) ==
            IF f \in image_fields /\ Truthy(rec[f]) THEN b64encode(rec[f]) ELSE rec[f]
        stringify(value) ==
            IF value.k = "datetime" THEN isoformat(value) ELSE value
    IN  IF listed.k # "list"
        THEN [exc |-> "TypeError"]
        ELSE IF \E i \in DOMAIN listed.v : listed.v[i].k # "dict"
        THEN [exc |-> "AttributeError"]
        ELSE IF \E i \in DOMAIN listed.v : \E f \in image_fields :
                   /\ f \in DOMAIN listed.v[i].v
                   /\ Truthy(listed.v[i].v[f])
                   /\ listed.v[i].v[f].k # "bytes"
        THEN [exc |-> "TypeError"]
        ELSE [exc |-> "none",
              value |-> PyList([i \in DOMAIN listed.v |->
                  PyDict([f \in DOMAIN listed.v[i].v |->
                      stringify(encode(listed.v[i].v, f))])])]

\* Whether json.dumps accepts the value
RECURSIVE serializable(_)
serializable(x) ==
    CASE x.k \in {"bytes", "datetime", "function"} -> FALSE
      [] x.k \in {"list", "tuple"} -> \A i \in DOMAIN x.v : serializable(x.v[i])
      [] x.k = "dict" -> \A f \in DOMAIN x.v : serializable(x.v[f])
      [] OTHER -> TRUE

\* json.dumps(value)
json_dumps(value) == [k |-> "json", v |-> value]

\* http.Response(json.dumps(data), content_type='application/json', status=status)
http_Response(data, status) ==
    [status |-> status, data |-> json_dumps(data), cookies |-> EmptyDict,
     raised |-> "none"]

----------------------------------------------------------------------------
(* odoo_method, in-process Odoo variant.                                   *)

\* {**a, **b}
Merge(a, b) ==
    [key \in DOMAIN a \cup DOMAIN b |-> IF key \in DOMAIN b THEN b[key] ELSE a[key]]

\* The except clauses without the last one, except Exception
odoo_except_business_only(exc, resp) ==
    IF exc = "none" THEN resp
    ELSE IF IsBusinessError(exc)
    THEN http_Response(PyDict([error |-> PyStr(exc)]), 400)
    ELSE resp

\* The except clauses that end the Odoo wrapper of odoo_method, lines 305-317
odoo_except(exc, resp) ==
    IF exc = "none" THEN resp
    ELSE IF IsBusinessError(exc)
    THEN http_Response(PyDict([error |-> PyStr(exc)]), 400)
    ELSE http_Response(PyDict([error |-> PyStr(exc)]), 500)

\* A branch ends by raising exc, with the store as it is then
Failed(exc, st, log) == [exc |-> exc, store |-> st, ops |-> log]

\* A branch ends with its result
Done(result, st, log) == [exc |-> "none", store |-> st, ops |-> log, result |-> result]

\* The result of _prepare_record_data ends a branch
Prepared(data, st, log) ==
    IF data.exc # "none" THEN Failed(data.exc, st, log) ELSE Done(data.value, st, log)

\* The browse of the ids and the check that some of them exist
Probe(ids) == <<[op |-> "browse", ids |-> ids], [op |-> "exists"]>>

\* Lines 237-239; made is the store with the record created
odoo_create(params, made, new_id) ==
    Prepared(_prepare_record_data(made, {new_id}, PyDict(params)), made,
             <<[op |-> "create", vals |-> PyDict(params)]>>)

\* Lines 245-248; written is the store with the records written
odoo_written(records, fields, values, written, log) ==
    Prepared(_prepare_record_data(written, records, fields), written,
             Append(log, [op |-> "write", vals |-> values]))

\* Lines 241-248
odoo_write(ids, fields, values, st, fault) ==
    IF exists(st, browse(ids)) = {}
    THEN Failed("ValidationError", st, Probe(ids))
    ELSE IF fault # "none"
    THEN Failed(fault, st, Probe(ids))
    ELSE IF ~(browse(ids) \subseteq DOMAIN st.recs)
    THEN Failed("MissingError", st, Probe(ids))
    ELSE IF values.k # "dict"
    THEN Failed("TypeError", st, Probe(ids))
    ELSE odoo_written(browse(ids), fields, values,
                      orm_write(st, browse(ids), values.v), Probe(ids))

\* Lines 250-255
odoo_unlink(ids, st, fault) ==
    IF exists(st, browse(ids)) = {}
    THEN Failed("ValidationError", st, Probe(ids))
    ELSE IF fault # "none"
    THEN Failed(fault, st, Probe(ids))
    ELSE Done(PyDict([success |-> PyBool(TRUE), deleted_ids |-> ids]),
              orm_unlink(st, browse(ids)), Append(Probe(ids), [op |-> "unlink"]))

\* Lines 271-279; page is what env.search_read returned
odoo_paginate(domain, offset, limit, page, st, log) ==
    IF Truthy(limit)
    THEN Done(PyDict([records |-> page,
                      total_count |-> PyInt(search_count(st, domain)),
                      limit |-> limit,
                      offset |-> offset]),
              st, Append(log, [op |-> "search_count", domain |-> domain]))
    ELSE Done(page, st, log)

\* Lines 257-279
odoo_search_read(domain, fields, offset, limit, st, fault) ==
    IF fault # "none"
    THEN Failed(fault, st, <<>>)
    ELSE odoo_paginate(domain, offset, limit,
                       search_read(st, domain, fields, offset, limit), st,
                       <<[op |-> "search_read", domain |-> domain, fields |-> fields,
                          offset |-> offset, limit |-> limit]>>)

\* Lines 281-285
odoo_read(ids, fields, st, fault) ==
    IF exists(st, browse(ids)) = {}
    THEN Failed("ValidationError", st, Probe(ids))
    ELSE IF fault # "none"
    THEN Failed(fault, st, Probe(ids))
    ELSE IF ~(browse(ids) \subseteq DOMAIN st.recs)
    THEN Failed("MissingError", st, Probe(ids))
    ELSE Done(PyList([i \in DOMAIN ids.v |-> record_dict(st, ids.v[i].v, names(fields))]),
              st, Append(Probe(ids), [op |-> "read", fields |-> fields]))

\* Lines 237-288: the branch of the method.  fault is what the ORM operation
\* of the branch raises ("none": it succeeds), generic what a method outside the
\* five returns
odoo_dispatch(method, params, st, fault, generic) ==
    CASE method = "create" ->
           IF fault # "none" THEN Failed(fault, st, <<>>)
           ELSE odoo_create(params, orm_create(st, params), st.next_id)
      [] method = "write" ->
           odoo_write(Get(params, "ids", PyNone), Get(params, "fields", PyList(<<>>)),
                      Get(params, "values", PyNone), st, fault)
      [] method = "unlink" ->
           odoo_unlink(Get(params, "ids", PyNone), st, fault)
      [] method = "search_read" ->
           odoo_search_read(Get(params, "domain", PyList(<<>>)),
                            Get(params, "fields", PyList(<<>>)),
                            Get(params, "offset", PyInt(0)),
                            Get(params, "limit", PyNone), st, fault)
      [] method = "read" ->
           odoo_read(Get(params, "ids", PyNone), Get(params, "fields", PyList(<<>>)),
                     st, fault)
      [] OTHER ->
           IF fault # "none" THEN Failed(fault, st, <<>>)
           ELSE Done(generic, st, <<[op |-> method, kwargs |-> PyDict(params)]>>)

\* The try block ends by raising exc
OdooThrow(exc, st, log, tr) ==
    [exc |-> exc, store |-> st, ops |-> log, trail |-> tr, resp |-> Raised(exc)]

\* The try block ends by returning resp
OdooReturn(resp, st, log, tr) ==
    [exc |-> "none", store |-> st, ops |-> log, trail |-> tr, resp |-> resp]

\* Lines 296-303: custom_response, or the JSON of the result
odoo_respond(v, custom_response, result, st, log, tr) ==
    IF callable(custom_response)
    THEN IF v.custom # "returns"
         THEN OdooThrow(v.custom, st, log,
                        Append(tr, [fn |-> "custom_response", result |-> result]))
         ELSE OdooReturn(Response(HookValue("custom_response", result), 200), st, log,
                         Append(tr, [fn |-> "custom_response", result |-> result]))
    ELSE IF ~serializable(result)
    THEN OdooThrow("TypeError", st, log,
                   Append(tr, [fn |-> "json.dumps", result |-> result]))
    ELSE OdooReturn(http_Response(result, 200), st, log,
                    Append(tr, [fn |-> "json.dumps", result |-> result]))

\* Lines 292-303: the hooks and the final response
odoo_finish(v, params, result, st, log, tr) ==
    IF callable(Get(params, "after_execution", PyNone))
    THEN IF v.after # "returns"
         THEN OdooThrow(v.after, st, log,
                        Append(tr, [fn |-> "after_execution", result |-> result]))
         ELSE odoo_respond(v, Get(params, "custom_response", PyNone),
                           HookValue("after_execution", result), st, log,
                           Append(tr, [fn |-> "after_execution", result |-> result]))
    ELSE odoo_respond(v, Get(params, "custom_response", PyNone), result, st, log, tr)

\* Lines 290-303, with the result shaped by handle_images_in_result
odoo_shaped(v, params, shaped, st, log, tr) ==
    IF shaped.exc # "none"
    THEN OdooThrow(shaped.exc, st, log, tr)
    ELSE odoo_finish(v, params, shaped.value, st, log, tr)

\* Lines 290-303, with what the branch of the method did
odoo_dispatched(v, params, d, tr) ==
    IF d.exc # "none"
    THEN OdooThrow(d.exc, d.store, d.ops, tr)
    ELSE odoo_shaped(v, params,
             handle_images_in_result(d.result, Get(params, "fields", PyList(<<>>))),
             d.store, d.ops, tr)

\* Lines 233-303, with the merged params
odoo_with_params(method, v, params, st, fault, generic) ==
    odoo_dispatched(v, params, odoo_dispatch(method, params, st, fault, generic),
                    <<[fn |-> "func"]>>)

\* The try block of the wrapper, lines 232-303
odoo_method_body(method, v, kwargs, st, fault, generic) ==
    IF v.raises # "none"
    THEN OdooThrow(v.raises, st, <<>>, <<[fn |-> "func"]>>)
    ELSE odoo_with_params(method, v, Merge(v.returns, kwargs), st, fault, generic)

\* The wrapper's except clauses applied to what its try block did
odoo_caught(body) == [body EXCEPT !.resp = odoo_except(body.exc, body.resp)]

\* odoo_method(model, method)(func), Odoo variant: the wrapper
odoo_method_wrapper(method, v, kwargs, st, fault, generic) ==
    odoo_caught(odoo_method_body(method, v, kwargs, st, fault, generic))

----------------------------------------------------------------------------
(* The decorated views and the requests of the model.                      *)

MaxId == 2
MaxLimit == 2

Model == "res.partner"
OdooUrl == PyStr("https://erp.example")
OdooDb == PyStr("prod")

MethodNames == {"search_read", "read", "create", "write", "unlink", "name_search"}

\* What the view's own code may raise
ViewExceptions == BusinessErrors \cup {"KeyError"}

\* What the hooks after_execution and custom_response of a view do: at most one
\* of them raises
HookPairs ==
    {<<a, c>> : a \in {"absent", "returns"},
                c \in {"absent", "returns", "ValidationError", "KeyError"}}
    \cup {<<a, "absent">> : a \in {"ValidationError", "KeyError"}}

Hooks(pair) ==
    [key \in (IF pair[1] = "absent" THEN {} ELSE {"after_execution"})
             \cup (IF pair[2] = "absent" THEN {} ELSE {"custom_response"}) |->
        PyFunction(key)]

DomainAcme == PyList(<<PyList(<<PyStr("name"), PyStr("="), PyStr("acme")>>)>>)
FieldLists ==
    {PyList(<<PyStr("name")>>),
     PyList(<<PyStr("name"), PyStr("image_1920"), PyStr("write_date")>>)}
Limits == {PyNone} \cup {PyInt(n) : n \in 0..MaxLimit}
IdLists ==
    {PyList(<<PyInt(i)>>) : i \in 1..MaxId}
    \cup {PyList(<<PyInt(i), PyInt(i + 1)>>) : i \in 1..(MaxId - 1)}
ValueDicts == {PyDict([name |-> PyStr("zen")]), PyDict([image_1920 |-> PyBytes("GIF")])}

\* The dicts with the key absent or bound to one of the values
Opt(key, values) == {EmptyDict} \cup {[k \in {key} |-> x] : x \in values}

\* One value for each key the decorated function may return
SampleValue(key) ==
    CASE key = "base_url" -> OdooUrl
      [] key = "domain" -> DomainAcme
      [] key = "fields" -> PyList(<<PyStr("name")>>)
      [] key = "limit" -> PyInt(1)
      [] key = "ids" -> PyList(<<PyInt(1)>>)
      [] key = "values" -> PyDict([name |-> PyStr("zen")])
      [] key = "name" -> PyStr("acme")

DjangoParamKeys == {"domain", "fields", "limit", "ids", "values", "name"}

\* What the decorated function of a Django view returns: base_url alone, or
\* all the keys; the hooks come with all the keys
DjangoDicts ==
    {[key \in {"base_url"} \cup K |-> SampleValue(key)] : K \in {{}, DjangoParamKeys}}

\* What the decorated function of an Odoo view returns, by the method it is
\* written for
OdooDicts(method) ==
    CASE method = "search_read" ->
           {Merge(Merge(a, b), c) : a \in Opt("domain", {DomainAcme}),
                                    b \in Opt("fields", FieldLists),
                                    c \in Opt("limit", Limits)}
      [] method = "read" ->
           {Merge(a, b) : a \in Opt("ids", IdLists), b \in Opt("fields", FieldLists)}
      [] method = "write" ->
           {Merge(Merge(a, b), c) : a \in Opt("ids", IdLists),
                                    b \in Opt("values", ValueDicts),
                                    c \in Opt("fields", FieldLists)}
      [] method = "unlink" -> Opt("ids", IdLists)
      [] method = "create" ->
           {Merge(Merge(a, b), c) : a \in Opt("name", {PyStr("acme")}),
                                    b \in Opt("image_1920", {PyBytes("GIF")}),
                                    c \in Opt("fields", FieldLists)}
      [] OTHER -> Opt("name", {PyStr("acme")})

\* The dict an Odoo view with hooks returns
OdooHookDict(method) ==
    [key \in CASE method = "search_read" -> {"domain", "fields", "limit"}
               [] method = "read" -> {"ids", "fields"}
               [] method = "write" -> {"ids", "values"}
               [] method = "unlink" -> {"ids"}
               [] OTHER -> {"name"} |-> SampleValue(key)]

MethodView(method, raises, returns, pair) ==
    [decorator |-> "odoo_method", method |-> method, raises |-> raises,
     returns |-> returns, after |-> pair[1], custom |-> pair[2]]

DjangoMethodViews ==
    {MethodView(m, e, EmptyDict, <<"absent", "absent">>) :
        m \in MethodNames, e \in ViewExceptions}
    \cup {MethodView(m, "none", d, <<"absent", "absent">>) :
        m \in MethodNames, d \in DjangoDicts}
    \cup {MethodView(m, "none",
                     Merge([key \in {"base_url"} \cup DjangoParamKeys |-> SampleValue(key)],
                           Hooks(pair)), pair) :
        m \in MethodNames, pair \in HookPairs}

OdooMethodViews ==
    {MethodView(m, e, EmptyDict, <<"absent", "absent">>) :
        m \in MethodNames, e \in ViewExceptions}
    \cup UNION {{MethodView(m, "none", d, <<"absent", "absent">>) : d \in OdooDicts(m)} :
                   m \in MethodNames}
    \cup {MethodView(m, "none", Merge(OdooHookDict(m), Hooks(pair)), pair) :
        m \in MethodNames, pair \in HookPairs}

Credentials ==
    {EmptyDict,
     [username |-> PyStr("admin")],
     [password |-> PyStr("secret")],
     [username |-> PyStr(""), password |-> PyStr("secret")],
     [username |-> PyStr("admin"), password |-> PyStr("")],
     [username |-> PyStr("admin"), password |-> PyStr("secret")]}

DjangoAuthViews ==
    {[decorator |-> "odoo_auth", raises |-> e, returns |-> EmptyDict] :
        e \in ViewExceptions}
    \cup
    {[decorator |-> "odoo_auth", raises |-> "none", returns |-> c] : c \in Credentials}

Failures == {[t |-> e] : e \in RequestException}

\* What the server answers to /web/dataset/call_kw
CallReplies ==
    Failures
    \cup {[t |-> "ok", json |-> [error |-> PyStr("Odoo Server Error")]]}
    \cup {[t |-> "ok", json |-> [result |-> r]] :
            r \in {PyBool(FALSE), PyInt(7), PyList(<<>>),
                   PyList(<<PyDict([id |-> PyInt(7), name |-> PyStr("acme")])>>)}}

\* What the server answers to /web/session/authenticate
AuthReplies ==
    Failures
    \cup {[t |-> "ok", json |-> j, cookies |-> c] :
            j \in {[error |-> PyStr("Access Denied")],
                   [result |-> PyDict(EmptyDict)],
                   [result |-> PyDict([uid |-> PyInt(2)])]},
            c \in {EmptyDict,
                   [session_id |-> PyStr("")],
                   [session_id |-> PyStr("s-new")],
                   [session_id |-> PyStr("s-new"), frontend_lang |-> PyStr("en_US")]}}

\* The requests a Django view receives: with the attribute COOKIES, with the
\* attribute _request only, or with neither
DjangoRequests ==
    LET jars == {EmptyDict, [session_id |-> PyStr("")], [session_id |-> PyStr("s-1")]}
    IN  {[COOKIES |-> c] : c \in jars}
        \cup {[r \in {"_request"} |-> [COOKIES |-> [session_id |-> PyStr("s-2")]]]}
        \cup {[data |-> EmptyDict]}

\* The keyword arguments the route passes to an Odoo view
RouteKwargs == {EmptyDict, [offset |-> PyInt(1)]}

\* What the ORM operation of an invocation raises
OrmFaults == {"none", "ValidationError", "OperationalError"}

\* What a model method outside the five returns
GenericResults ==
    {PyBool(TRUE),
     PyDict([id |-> PyInt(1), name |-> PyStr("acme")]),
     PyList(<<PyDict([id |-> PyInt(1), name |-> PyStr("acme")])>>),
     PyList(<<[k |-> "tuple", v |-> <<PyInt(1), PyStr("acme")>>]>>)}

\* The records of the ERP before the first request
InitialRecord(id) ==
    [name |-> IF id % 2 = 1 THEN PyStr("acme") ELSE PyStr("zen"),
     image_1920 |-> IF id = 1 THEN PyBytes("PNG") ELSE PyBool(FALSE),
     write_date |-> PyDateTime("2024-01-01 00:00:00")]

InitialStores ==
    {[recs |-> [id \in S |-> InitialRecord(id)],
      next_id |-> 1 + Cardinality({i \in 1..MaxId : \E j \in S : i <= j})] :
        S \in SUBSET (1..MaxId)}

NoStore == [recs |-> EmptyDict, next_id |-> 1]
NoRequest == [data |-> EmptyDict, fresh |-> TRUE]

----------------------------------------------------------------------------
(* The state machine.                                                      *)

Init ==
    /\ mode \in {"django", "odoo"}
    /\ view \in IF mode = "django" THEN DjangoMethodViews \cup DjangoAuthViews
                ELSE OdooMethodViews
    /\ store \in IF mode = "django" THEN {NoStore} ELSE InitialStores
    /\ request = [http |-> NoRequest]
    /\ response = Response(PyNone, 0)
    /\ calls = <<>>
    /\ ops = <<>>
    /\ trail = <<>>
    /\ error = "none"

\* The replies an invocation can consume: none without a session, two for create
NetsFor(req) ==
    IF ~Truthy(get_session(req))
    THEN {<<>>}
    ELSE IF view.method = "create"
    THEN {<<n1, n2>> : n1 \in CallReplies, n2 \in CallReplies}
    ELSE {<<n1>> : n1 \in CallReplies}

\* What an invocation of a Django wrapper leaves behind
DjangoServed(req, out) ==
    /\ request' = req
    /\ response' = out.resp
    /\ calls' = out.calls
    /\ trail' = out.trail
    /\ error' = out.exc
    /\ UNCHANGED <<mode, view, store, ops>>

\* What an invocation of the Odoo wrapper leaves behind
OdooServed(req, out) ==
    /\ request' = req
    /\ response' = out.resp
    /\ store' = out.store
    /\ ops' = out.ops
    /\ trail' = out.trail
    /\ error' = out.exc
    /\ UNCHANGED <<mode, view, calls>>

\* A request to a view decorated with odoo_method, Django variant
DjangoMethod ==
    /\ mode = "django"
    /\ view.decorator = "odoo_method"
    /\ \E req \in DjangoRequests :
         \E nets \in NetsFor(req) :
           DjangoServed([http |-> req, nets |-> nets],
                        django_method_wrapper(Model, view.method, view, req, nets))

\* A request to a view decorated with odoo_auth, Django variant
DjangoAuth ==
    /\ mode = "django"
    /\ view.decorator = "odoo_auth"
    /\ \E net \in AuthReplies :
         DjangoServed([http |-> [data |-> view.returns], nets |-> <<net>>],
                      django_auth_wrapper(OdooUrl, OdooDb, view, net))

\* A request to a view decorated with odoo_method, Odoo variant
OdooMethod ==
    /\ mode = "odoo"
    /\ view.decorator = "odoo_method"
    /\ view.method = "create" => store.next_id <= MaxId
    /\ \E kwargs \in RouteKwargs, fault \in OrmFaults :
         \E generic \in IF view.method \in {"search_read", "read", "create", "write", "unlink"}
                        THEN {PyNone} ELSE GenericResults :
           OdooServed([http |-> [kwargs |-> kwargs], fault |-> fault,
                       generic |-> generic, before |-> store],
                      odoo_method_wrapper(view.method, view, kwargs, store, fault, generic))

Next == DjangoMethod \/ DjangoAuth \/ OdooMethod

Spec == Init /\ [][Next]_vars

----------------------------------------------------------------------------
(* The claims.                                                             *)

FiveMethods == {"search_read", "read", "create", "write", "unlink"}

\* A request has been served
Invoked == "fresh" \notin DOMAIN request.http

DjangoMethodServed == mode = "django" /\ view.decorator = "odoo_method" /\ Invoked
DjangoAuthServed == mode = "django" /\ view.decorator = "odoo_auth" /\ Invoked
OdooMethodServed == mode = "odoo" /\ view.decorator = "odoo_method" /\ Invoked

\* The cookies of a Django request, and whether a non-empty session_id is among them
CookieJar(req) ==
    IF "COOKIES" \in DOMAIN req THEN req.COOKIES
    ELSE IF "_request" \in DOMAIN req THEN req["_request"].COOKIES
    ELSE EmptyDict
CarriesSession(req) ==
    "session_id" \in DOMAIN CookieJar(req) /\ CookieJar(req)["session_id"].v # ""

IsErrorPayload(x) == x.k = "dict" /\ DOMAIN x.v = {"error"}

NoHooks == view.after = "absent" /\ view.custom = "absent"

\* The params the view passes on, without the wrapper's own keys
ViewParams == Without(view.returns, {"base_url", "custom_response", "after_execution"})

\* C1: in the Django mode an odoo_method view answers a request without a
\* (non-empty) session_id cookie with 401 and an error body, without calling the
\* decorated function or the server; a remote call is only issued for a request
\* that carries a session_id
C1_SessionRequired ==
    DjangoMethodServed =>
        /\ ~CarriesSession(request.http) =>
              /\ response.status = 401
              /\ IsErrorPayload(response.data)
              /\ trail = <<>>
              /\ calls = <<>>
        /\ calls # <<>> => CarriesSession(request.http)

C1_Witness ==
    /\ DjangoMethodServed
    /\ "COOKIES" \in DOMAIN request.http
    /\ "session_id" \in DOMAIN request.http.COOKIES
    /\ ~CarriesSession(request.http)
    /\ response.status = 401
    /\ view.raises = "none"

\* C2: no exception raised inside an odoo_method wrapper, Django or Odoo, leaves
\* it: a UserError, ValidationError or AccessError gives status 400, every other
\* exception status 500
C2_ExceptionsBecomeResponses ==
    (Invoked /\ view.decorator = "odoo_method") =>
        /\ response.raised = "none"
        /\ IsBusinessError(error) => response.status = 400
        /\ (error # "none" /\ ~IsBusinessError(error)) => response.status = 500

C2_Witness ==
    /\ OdooMethodServed
    /\ error = "TypeError"
    /\ response.status = 500
    /\ response.raised = "none"

\* C3: a network failure is never raised out of call_odoo or authenticate, which
\* return a dict with the single key "error"; call_odoo returns such a dict for a
\* reply without 'result' too, and the result itself for a reply with it
C3_NetworkFailuresReturned ==
    \A i \in DOMAIN calls :
        /\ calls[i].raised = "none"
        /\ calls[i].sent.net.t \in RequestException => IsErrorPayload(calls[i].ret)
        /\ (calls[i].sent.fn = "call_odoo" /\ calls[i].sent.net.t = "ok") =>
              IF "result" \in DOMAIN calls[i].sent.net.json
              THEN calls[i].ret = calls[i].sent.net.json.result
              ELSE IsErrorPayload(calls[i].ret)

C3_Witness ==
    /\ Len(calls) = 2
    /\ calls[1].sent.fn = "call_odoo"
    /\ calls[1].sent.net.t = "ok"
    /\ "result" \in DOMAIN calls[1].sent.net.json
    /\ calls[2].sent.net.t = "Timeout"
    /\ IsErrorPayload(calls[2].ret)

\* C4: in the Django mode the payload posted to {base_url}/web/dataset/call_kw
\* carries the model, the method and the args and kwargs shaped from the view's
\* parameters: search_read args=[domain] with kwargs fields and limit, read
\* args=[ids] with kwargs fields, create args=[values], write args=[ids, values],
\* unlink args=[ids]
C4_PayloadCarriesShapedArgs ==
    (DjangoMethodServed /\ calls # <<>> /\ view.method \in FiveMethods) =>
        /\ calls[1].sent.url = <<Get(view.returns, "base_url", PyNone), "/web/dataset/call_kw">>
        /\ calls[1].sent.json.params.model = Model
        /\ calls[1].sent.json.params.method = view.method
        /\ CASE view.method = "search_read" ->
                  /\ calls[1].sent.json.params.args
                        = <<Get(ViewParams, "domain", PyList(<<>>))>>
                  /\ calls[1].sent.json.params.kwargs
                        = [fields |-> Get(ViewParams, "fields", PyList(<<>>)),
                           limit |-> Get(ViewParams, "limit", PyNone)]
             [] view.method = "read" ->
                  /\ calls[1].sent.json.params.args
                        = <<Get(ViewParams, "ids", PyList(<<>>))>>
                  /\ calls[1].sent.json.params.kwargs
                        = [fields |-> Get(ViewParams, "fields", PyList(<<>>))]
             [] view.method = "create" ->
                  calls[1].sent.json.params.args = <<PyDict(ViewParams)>>
             [] view.method = "write" ->
                  calls[1].sent.json.params.args
                        = <<Get(ViewParams, "ids", PyList(<<>>)),
                            Get(ViewParams, "values", PyDict(EmptyDict))>>
             [] view.method = "unlink" ->
                  calls[1].sent.json.params.args
                        = <<Get(ViewParams, "ids", PyList(<<>>))>>

\* C5: for a method name outside the five, an authenticated invocation dispatches
\* exactly one call of that method (a call_kw remote call in the Django mode, a
\* direct call with the parameters as keyword arguments in the Odoo mode) and
\* returns its result with a success status
C5_GenericDispatch ==
    (/\ Invoked
     /\ view.decorator = "odoo_method"
     /\ view.method \notin FiveMethods
     /\ view.raises = "none"
     /\ NoHooks
     /\ mode = "django" => CarriesSession(request.http)
     /\ mode = "odoo" => request.fault = "none") =>
        /\ response.status = 200
        /\ mode = "django" =>
              /\ Len(calls) = 1
              /\ calls[1].sent.json.params.method = view.method
              /\ response.data = calls[1].ret
        /\ mode = "odoo" =>
              /\ Len(ops) = 1
              /\ ops[1].op = view.method
              /\ ops[1].kwargs = PyDict(Merge(view.returns, request.http.kwargs))
              /\ response.data = json_dumps(request.generic)

\* What the server did with the login: a truthy result and a session_id cookie
LoginSucceeded(net) ==
    /\ net.t = "ok"
    /\ Truthy(Get(net.json, "result", PyNone))
    /\ Truthy(Get(net.cookies, "session_id", PyNone))

CredentialsGiven ==
    /\ view.raises = "none"
    /\ Truthy(Get(view.returns, "username", PyNone))
    /\ Truthy(Get(view.returns, "password", PyNone))

Body == response.data.v

\* The params of the Odoo wrapper: {**additional_params, **kwargs}
OdooParams == Merge(view.returns, request.http.kwargs)

\* C7: in the Odoo mode a search_read with a truthy limit answers with the
\* pagination envelope, an object with exactly the members records, total_count,
\* limit and offset; without a limit (absent, None or 0) the body is the plain
\* list of records and no count query is made
C7_PaginationEnvelope ==
    (/\ OdooMethodServed
     /\ view.method = "search_read"
     /\ view.raises = "none"
     /\ NoHooks
     /\ request.fault = "none"
     /\ error = "none") =>
        IF Truthy(Get(OdooParams, "limit", PyNone))
        THEN /\ Body.k = "dict"
             /\ DOMAIN Body.v = {"records", "total_count", "limit", "offset"}
             /\ Body.v["total_count"]
                   = PyInt(search_count(store, Get(OdooParams, "domain", PyList(<<>>))))
             /\ Body.v["limit"] = Get(OdooParams, "limit", PyNone)
             /\ Body.v["offset"] = Get(OdooParams, "offset", PyInt(0))
             /\ Len(Body.v["records"].v) <= Get(OdooParams, "limit", PyNone).v
        ELSE /\ Body.k = "list"
             /\ \A i \in DOMAIN Body.v : "id" \in DOMAIN Body.v[i].v
             /\ \A i \in DOMAIN ops : ops[i].op # "search_count"

\* The records of a result: the dicts of a list, and the records inside a
\* pagination envelope among them
RecordsOf(x) ==
    IF x.k # "list" THEN {}
    ELSE {x.v[i] : i \in {j \in DOMAIN x.v : x.v[j].k = "dict"}}
         \cup UNION {{x.v[i].v["records"].v[j] : j \in DOMAIN x.v[i].v["records"].v} :
                        i \in {j \in DOMAIN x.v :
                                  /\ x.v[j].k = "dict"
                                  /\ "records" \in DOMAIN x.v[j].v
                                  /\ x.v[j].v["records"].k = "list"}}

\* C8: in the Odoo mode, in every record of the result (those inside a
\* pagination envelope included) each requested image field with a value is
\* base64 text and no value is a raw date or datetime when the result reaches
\* JSON serialization
C8_NoRawValuesReachJson ==
    OdooMethodServed =>
        \A i \in DOMAIN trail :
            trail[i].fn = "json.dumps" =>
                \A rec \in RecordsOf(trail[i].result) :
                    \A f \in DOMAIN rec.v :
                        /\ rec.v[f].k # "datetime"
                        /\ (f \in names(Get(OdooParams, "fields", PyList(<<>>)))
                            /\ IsImageField(f)) => rec.v[f].k # "bytes"

\* The ids a write, unlink or read is asked for
RequestedIds ==
    IF Get(OdooParams, "ids", PyNone).k = "list"
    THEN {Get(OdooParams, "ids", PyNone).v[i].v : i \in DOMAIN Get(OdooParams, "ids", PyNone).v}
    ELSE {}

\* C9: in the Odoo mode a write, unlink or read whose ids match no existing
\* record answers 400 and executes no write, unlink or read, so that the stored
\* records are unchanged
C9_MissingRecordsRejected ==
    (/\ OdooMethodServed
     /\ view.method \in {"write", "unlink", "read"}
     /\ view.raises = "none"
     /\ RequestedIds \cap DOMAIN request.before.recs = {}) =>
        /\ response.status = 400
        /\ error = "ValidationError"
        /\ \A i \in DOMAIN ops : ops[i].op \notin {"write", "unlink", "read"}
        /\ store = request.before

C9_Witness ==
    /\ OdooMethodServed
    /\ view.method = "unlink"
    /\ RequestedIds # {}
    /\ DOMAIN request.before.recs # {}
    /\ RequestedIds \cap DOMAIN request.before.recs = {}
    /\ request.fault = "none"
    /\ response.status = 400

\* C10: in the Django mode a create issues at most two remote calls, create and
\* then read; the read is issued only when the create returned the id of the new
\* record, never after a falsy result or an {"error": ...} payload, and reads
\* exactly that id; the body is the first record of a non-empty read and
\* otherwise the result of the create
C10_CreateThenRead ==
    (DjangoMethodServed /\ view.method = "create") =>
        /\ Len(calls) <= 2
        /\ Len(calls) >= 1 => calls[1].sent.json.params.method = "create"
        /\ Len(calls) = 2 =>
              /\ calls[2].sent.json.params.method = "read"
              /\ Truthy(calls[1].ret)
              /\ ~IsErrorPayload(calls[1].ret)
              /\ calls[2].sent.json.params.args = <<PyList(<<calls[1].ret>>)>>
        /\ (Len(calls) >= 1 /\ NoHooks /\ error = "none") =>
              response.data = IF Len(calls) = 2 /\ calls[2].ret.k = "list"
                                 /\ Len(calls[2].ret.v) > 0
                              THEN calls[2].ret.v[1]
                              ELSE calls[1].ret

\* A remote call that was answered with a result
CallSucceeded(c) == c.sent.net.t = "ok" /\ "result" \in DOMAIN c.sent.net.json

\* The result of the remote calls of an invocation: of the call, or for a create
\* the record read back
RemoteResult ==
    IF Len(calls) = 2 /\ Truthy(calls[2].ret) /\ calls[2].ret.k = "list"
    THEN calls[2].ret.v[1]
    ELSE calls[1].ret

\* The places in the trail where a hook was invoked
HookCalls(hook) == {i \in DOMAIN trail : trail[i].fn = hook}

\* The result as the hooks of the view leave it, step by step
AfterHookResult ==
    IF view.after = "returns" THEN HookValue("after_execution", RemoteResult)
    ELSE RemoteResult

\* C11: in the Django mode, for each of the methods, create included, after a
\* remote call that succeeded the hooks run in a fixed order: a callable
\* after_execution exactly once with (result, params), its value replacing the
\* result, then a callable custom_response with (result, params), its value
\* being the response; without hooks the result is returned with status 200;
\* a hook being supplied never turns a successful call into a 500
C11_HooksRunAfterCall ==
    (/\ DjangoMethodServed
     /\ view.method \in FiveMethods
     /\ view.raises = "none"
     /\ view.after \in {"absent", "returns"}
     /\ view.custom \in {"absent", "returns"}
     /\ calls # <<>>
     /\ \A i \in DOMAIN calls : CallSucceeded(calls[i])) =>
        /\ response.status # 500
        /\ error = "none"
        /\ Cardinality(HookCalls("after_execution"))
              = IF view.after = "returns" THEN 1 ELSE 0
        /\ Cardinality(HookCalls("custom_response"))
              = IF view.custom = "returns" THEN 1 ELSE 0
        /\ \A i \in HookCalls("after_execution") :
              /\ trail[i].result = RemoteResult
              /\ IsBound(trail[i].params)
              /\ view.method # "create" =>
                    trail[i].params = shape_params(view.method, ViewParams)
              /\ \A j \in HookCalls("custom_response") : i < j
        /\ \A j \in HookCalls("custom_response") :
              /\ trail[j].result = AfterHookResult
              /\ IsBound(trail[j].params)
        /\ response.data = IF view.custom = "returns"
                           THEN HookValue("custom_response", AfterHookResult)
                           ELSE AfterHookResult
        /\ NoHooks => response.status = 200

====
